---- MODULE Spec2Model ----
(***************************************************************************)
(* Housing affordability clustering: the batch pipeline                    *)
(* (clean_data.py -> refine_data.py -> run_analysis.py), the artifacts it  *)
(* persists, and the Flask service (app.py) that loads them and answers    *)
(* /api/predict.                                                           *)
(*                                                                         *)
(* Numbers: incomes, costs, ages and bedrooms are integers; a ratio is an  *)
(* exact fraction <<n, d>>, compared by cross-multiplication (d = 0 is the *)
(* float NaN). A JSON value is a tagged record, so that Python's float()   *)
(* can be modelled by what it does to each kind of value.                  *)
(*                                                                         *)
(* Spec is the deployment and SpecPredict the service with one bundle      *)
(* loaded. The batch scripts are also run on tables of cells: SpecClean    *)
(* (clean_data.py on a raw table), SpecSelect (refine_data.py's feature    *)
(* selection on a correlation matrix), SpecScaler (MinMaxScaler fitted on  *)
(* a matrix and applied to a vector) and SpecSearch (run_analysis.py's     *)
(* search for k on given scores); calc holds the run's input and result.   *)
(***************************************************************************)
EXTENDS Integers, Sequences, FiniteSets, TLC

None == "None"

(***************************************************************************)
(* Bounds of the model.                                                    *)
(***************************************************************************)
\* How many times refine_data may run (each run fits a new scaler).
MaxRuns == 2

(***************************************************************************)
(* Exact fractions.                                                        *)
(***************************************************************************)
Rat(n, d) == <<n, d>>
RatLT(a, b) == a[1] * b[2] < b[1] * a[2]
RatLE(a, b) == a[1] * b[2] <= b[1] * a[2]
RatEq(a, b) == a[1] * b[2] = b[1] * a[2]
RatGT(a, b) == RatLT(b, a)

(***************************************************************************)
(* Sequence helpers.                                                       *)
(***************************************************************************)
Range(s) == {s[i] : i \in 1..Len(s)}
RECURSIVE Filter(_, _)
\* The elements of sequence s that are in set keep, in s's order
\* (a list comprehension `[c for c in s if c in keep]`).
Filter(s, keep) ==
  IF s = <<>> THEN <<>>
  ELSE IF Head(s) \in keep THEN <<Head(s)>> \o Filter(Tail(s), keep)
  ELSE Filter(Tail(s), keep)

(***************************************************************************)
(* clean_data.py                                                           *)
(***************************************************************************)
\* The columns of the raw survey table that the pipeline names.
RawColumns ==
  {"CONTROL", "AGE1", "ZINC2", "COSTMED", "VALUE", "BEDRMS", "PER", "ROOMS",
   "FMR", "LMED", "FMTSTRUCTURETYPE", "FMTOWNRENT", "FMTSTATUS", "REGION",
   "METRO3", "FMTINCRELAMICAT"}

\* clean_data.py:102  clip(upper=3.0)
BurdenCap == 3

\* clean_data.py:96-105: cost_burden_ratio of one row of the cleaned table.
\* zinc2 and costmed are the row's (already cleaned, hence >= 0) values.
TrainBurden(cols, zinc2, costmed) ==
  IF "COSTMED" \in cols /\ "ZINC2" \in cols
  THEN LET income == IF zinc2 = 0 THEN 1 ELSE zinc2
           ratio == Rat(costmed * 12, income)
       IN IF RatGT(ratio, Rat(BurdenCap, 1)) THEN Rat(BurdenCap, 1) ELSE ratio
  ELSE Rat(0, 1)

\* clean_data.py:111-117: affordability_status of one row.
TrainStatus(burden) ==
  IF RatLT(burden, Rat(3, 10)) THEN 1
  ELSE IF RatLE(burden, Rat(5, 10)) THEN 2
  ELSE 3

\* clean_data.py:34-39, 99-117, 149-150, 160: the columns of cleaned_data.csv
\* when the columns `dropped` exceed 30% missing. (clustering_features.csv,
\* lines 126-165, is read by no later stage.)
CleanedColumns(dropped) ==
  LET kept == RawColumns \ dropped
  IN kept \cup {"cost_burden_ratio", "affordability_status"}
          \cup (IF {"REGION", "METRO3"} \subseteq kept
                THEN {"Locality_Label"} ELSE {})

(***************************************************************************)
(* refine_data.py                                                          *)
(***************************************************************************)
\* refine_data.py:35-42
candidates ==
  <<"ZINC2", "COSTMED", "VALUE", "FMR",
    "cost_burden_ratio", "affordability_status",
    "AGE1", "PER", "BEDRMS", "ROOMS",
    "FMTSTRUCTURETYPE", "FMTOWNRENT", "FMTSTATUS",
    "REGION", "METRO3", "Locality_Label",
    "FMTINCRELAMICAT">>

\* refine_data.py:45
SelectedFeatures(cols) == Filter(candidates, cols)

\* refine_data.py:52-56: feature_df after the >30% missing drop.
FeatureDf(cols, drop_missing) ==
  Filter(SelectedFeatures(cols), Range(SelectedFeatures(cols)) \ drop_missing)

\* refine_data.py:64-68: a column is dropped when some column before it in
\* feature_df correlates with it above 0.85 (the strict upper triangle).
\* corr is the set of pairs {a, b} whose absolute correlation exceeds 0.85.
ToDrop(fdf, corr) ==
  {fdf[j] : j \in {j \in 1..Len(fdf) :
                     \E i \in 1..(j - 1) : {fdf[i], fdf[j]} \in corr}}

\* refine_data.py:78: the columns the scaler is fitted on, in order.
FinalFeatures(cols, drop_missing, corr) ==
  LET fdf == FeatureDf(cols, drop_missing)
  IN Filter(fdf, Range(fdf) \ ToDrop(fdf, corr))

(***************************************************************************)
(* run_analysis.py                                                         *)
(***************************************************************************)
\* run_analysis.py:34  K_range = range(2, 11)
KRange == 2..10

\* An argmax that returns the last position of the maximum.
OptimalKLastMax(sil) ==
  CHOOSE k \in KRange :
    /\ \A j \in KRange : sil[j] <= sil[k]
    /\ \A j \in KRange : j > k => sil[j] < sil[k]

\* run_analysis.py:64  K_range[np.argmax(sil_scores)]: argmax returns the
\* first position of the maximum.
OptimalK(sil) ==
  CHOOSE k \in KRange :
    /\ \A j \in KRange : sil[j] <= sil[k]
    /\ \A j \in KRange : j < k => sil[j] < sil[k]

(***************************************************************************)
(* app.py: JSON values and Python's float()                                *)
(***************************************************************************)
\* A number is a fraction <<n, d>>; d = 0 stands for the float NaN.
Num(n) == Rat(n, 1)
NaN == Rat(0, 0)
IsNaN(x) == x[2] = 0

\* JSON values of a request payload.
JAbsent == [t |-> "absent"]
JNull == [t |-> "null"]
JNum(v) == [t |-> "num", v |-> v]
JStr(s) == [t |-> "str", s |-> s]
JList == [t |-> "list"]

\* What float() makes of a string: "" and non-numeric text raise ValueError,
\* "nan" parses to NaN, a decimal numeral parses to its value.
StrFloat(s) ==
  CASE s = "140" -> [exc |-> "none", v |-> Num(140)]
    [] s = "1" -> [exc |-> "none", v |-> Num(1)]
    [] s = "2" -> [exc |-> "none", v |-> Num(2)]
    [] s = "35" -> [exc |-> "none", v |-> Num(35)]
    [] s = "nan" -> [exc |-> "none", v |-> NaN]
    [] OTHER -> [exc |-> "ValueError"]

\* app.py:90-92, 106: float(x) of a JSON value. None and a list raise
\* TypeError, a string is parsed, a number is itself.
PyFloat(j) ==
  CASE j.t = "num" -> [exc |-> "none", v |-> Num(j.v)]
    [] j.t = "str" -> StrFloat(j.s)
    [] OTHER -> [exc |-> "TypeError"]

\* app.py:90-94: data.get(key, default); data.get('age') has no default and
\* yields None for an absent key as for a null.
DataGet(j, default) == IF j.t = "absent" THEN JNum(default) ELSE j
DataGetNone(j) == IF j.t = "absent" THEN JNull ELSE j

\* app.py:90-92
DefaultIncome == 50000
DefaultCost == 1000
DefaultBedrooms == 3
\* app.py:97
AGE_MEDIAN == 35
\* app.py:107
AgeMin == 18
AgeMax == 110

\* app.py:101-116: (final_age, age_anomaly) of raw_age, or the exception that
\* escapes the inner try (only ValueError is caught there).
AgeValidation(raw_age) ==
  IF raw_age.t = "null" \/ raw_age = JStr("")
  THEN [exc |-> "none", final_age |-> Num(AGE_MEDIAN), age_anomaly |-> FALSE]
  ELSE LET p == PyFloat(raw_age)
       IN CASE p.exc = "ValueError" ->
                 [exc |-> "none", final_age |-> Num(AGE_MEDIAN),
                  age_anomaly |-> FALSE]
            [] p.exc = "TypeError" -> [exc |-> "TypeError"]
            [] OTHER ->
                 IF ~IsNaN(p.v) /\ (RatLT(p.v, Num(AgeMin)) \/ RatGT(p.v, Num(AgeMax)))
                 THEN [exc |-> "none", final_age |-> Num(AGE_MEDIAN),
                       age_anomaly |-> TRUE]
                 ELSE [exc |-> "none", final_age |-> p.v, age_anomaly |-> FALSE]

(***************************************************************************)
(* app.py: build_features                                                  *)
(***************************************************************************)
Max(a, b) == IF a >= b THEN a ELSE b

\* app.py:121  burden = (cst * 12) / max(inc, 1)
Burden(inc, cst) == Rat(cst * 12, Max(inc, 1))

\* app.py:129
Status(burden) ==
  IF RatLT(burden, Rat(3, 10)) THEN 1
  ELSE IF RatLE(burden, Rat(5, 10)) THEN 2
  ELSE 3

\* app.py:132-133  ami_ratio = inc / 70000.0
AmiCat(inc) ==
  LET ami_ratio == Rat(inc, 70000)
  IN IF RatLT(ami_ratio, Rat(3, 10)) THEN 1
     ELSE IF RatLT(ami_ratio, Rat(5, 10)) THEN 2
     ELSE IF RatLT(ami_ratio, Rat(8, 10)) THEN 3
     ELSE 4

\* app.py:136-137
RentOwn(inc) == IF inc > 65000 THEN 1 ELSE 2

\* app.py:140-156: the names the comments give the 15 slots, in order.
FeatureNames ==
  <<"ZINC2", "COSTMED", "VALUE", "FMR", "cost_burden_ratio",
    "affordability_status", "AGE1", "PER", "BEDRMS", "ROOMS",
    "FMTSTRUCTURETYPE", "FMTOWNRENT", "REGION", "METRO3", "FMTINCRELAMICAT">>

\* app.py:119-157: build_features(inc, cst, ag, beds) -> (vec, burden).
\* inc, cst and beds are integers, ag is a number (possibly NaN).
BuildFeatures(inc, cst, ag, beds) ==
  LET burden == Burden(inc, cst)
  IN [vec |-> <<Num(inc), Num(cst), Num(cst * 12 * 15), Num(1100), burden,
                Num(Status(burden)), ag, Num(2), Num(beds), Num(beds + 2),
                Num(RentOwn(inc)), Num(RentOwn(inc)), Num(3), Num(1),
                Num(AmiCat(inc))>>,
      burden |-> burden]

\* app.py:167: MinMaxScaler.transform of a single row given as a list: it
\* raises ValueError when the row's length is not the number of fitted
\* features or when the row holds a NaN; a list carries no column names, so
\* the order of the features is not checked.
ScalerTransformRaises(sc, vec) ==
  \/ Len(vec) # Len(sc.cols)
  \/ \E i \in 1..Len(vec) : IsNaN(vec[i])

\* app.py:168: KMeans.predict raises ValueError when the row's length is not
\* the number of features the model was fitted on.
ModelPredictRaises(m, vec) == Len(vec) # m.n

(***************************************************************************)
(* app.py: policy mapping and the response                                 *)
(***************************************************************************)
\* app.py:173-190
cluster_policy_map ==
  [c \in 0..3 |->
     CASE c = 0 -> [label |-> "Middle-Income Stable",
                    policy |-> "Workforce housing support"]
       [] c = 1 -> [label |-> "Low-Income Severely Burdened",
                    policy |-> "Immediate rent subsidies"]
       [] c = 2 -> [label |-> "High-Income Secure",
                    policy |-> "Market-rate housing development"]
       [] c = 3 -> [label |-> "Extremely Low-Income / No Income",
                    policy |-> "Emergency shelter"]]

PolicyLookupDefaulting(c) ==
  IF c \in DOMAIN cluster_policy_map
  THEN [found |-> TRUE, mapping |-> cluster_policy_map[c]]
  ELSE [found |-> TRUE, mapping |-> cluster_policy_map[0]]

\* app.py:192-196: the entry of primary_cluster, or none.
PolicyLookup(c) ==
  IF c \notin DOMAIN cluster_policy_map
  THEN [found |-> FALSE]
  ELSE [found |-> TRUE, mapping |-> cluster_policy_map[c]]

\* app.py:222
PossibleMonthly(inc, cst, burden) ==
  inc < 6000 /\ cst >= 800 /\ RatGT(burden, Num(2))

\* app.py:224-228: the anomaly reasons, in order. The age reason embeds the
\* raw age value.
Anomalies(age_anomaly, raw_age, possible_monthly) ==
  (IF age_anomaly
   THEN <<[msg |-> "Age invalid (out of range). used median.", raw |-> raw_age]>>
   ELSE <<>>)
  \o (IF possible_monthly
      THEN <<[msg |-> "Potential monthly income entry detected."]>>
      ELSE <<>>)

\* app.py:192-243: the response once the model has returned primary_cluster.
Respond(l, inc, cst, primary_cluster) ==
  LET found == PolicyLookup(primary_cluster)
      anomalies == Anomalies(l.age_anomaly, l.raw_age,
                             PossibleMonthly(inc, cst, l.primary_burden))
  IN IF ~found.found
     THEN [status |-> 500, body |-> [error |-> "Invalid cluster predicted"]]
     ELSE [status |-> 200,
           body |-> [cluster |-> primary_cluster,
                     cost_burden_ratio |-> l.primary_burden,
                     cost_burden_label |->
                       IF RatGT(l.primary_vec[5], Rat(3, 10))
                       THEN "High" ELSE "Affordable",
                     recommendation |-> found.mapping,
                     anomaly_flag |-> Len(anomalies) > 0,
                     anomaly_reasons |-> anomalies]]

(***************************************************************************)
(* State                                                                   *)
(***************************************************************************)
VARIABLES
  cleaned,   \* cleaned_data.csv: its columns and one household row
  refined,   \* refined_features.csv + refined_metadata.csv, and scaler.pkl
  kmeans,    \* kmeans_model.pkl + cluster_assignments.csv
  df,        \* app.py global df
  model,     \* app.py global model
  scaler,    \* app.py global scaler
  loadPc,    \* where load_resources stands
  pc,        \* where the /api/predict handler stands
  req,       \* the payload of the request being (or last) handled
  loc,       \* the handler's local variables
  resp,      \* the response of the last request
  health,    \* the response of the last GET /health
  calc       \* one run of a batch script on a table: its input and its result

vars ==
  <<cleaned, refined, kmeans, df, model, scaler, loadPc, pc, req, loc, resp,
    health, calc>>
disk == <<cleaned, refined, kmeans>>
globals == <<df, model, scaler>>
handler == <<pc, req, loc, resp>>

\* An artifact that does not exist / a global that is None carries run 0.
NoCleaned == [run |-> 0]
NoScaler == [run |-> 0, cols |-> <<>>, scaler_pkl |-> FALSE]
NoModel == [run |-> 0, k |-> 0, n |-> 0]
IsNone(x) == x.run = 0
NoLocals == [stage |-> "none"]
NoResponse == [status |-> 0]
NoCalc == [op |-> "none"]
NoHealth == [status |-> "none", rows |-> 0]

(***************************************************************************)
(* Inputs                                                                  *)
(***************************************************************************)
\* Column sets that exceed 30% missing in the raw table (clean_data.py:37).
CleanDropSets == {{}}
\* Households of the raw table: (ZINC2, COSTMED), both >= 0.
HouseholdIncomes == {0, 1000, 45000}
HouseholdCosts == {800, 1200}
CleanInputs ==
  [dropped : CleanDropSets, zinc2 : HouseholdIncomes, costmed : HouseholdCosts]

\* Sets of pairs of candidate columns whose absolute correlation exceeds 0.85.
CorrSets == {{}, {{"REGION", "Locality_Label"}, {"FMTOWNRENT", "FMTSTATUS"}}}
\* Column sets that exceed 30% missing after refine_data's negative cleaning.
RefineMissingSets == {{}}
RefineInputs == [missing : RefineMissingSets, corr : CorrSets]

\* Silhouette scores per k: 1 at one or two values of k, 0 elsewhere.
SilPeaks == {2, 4, 10}
SilInputs ==
  {[k \in KRange |-> IF k \in {p, q} THEN 1 ELSE 0] : p \in SilPeaks, q \in SilPeaks}

\* Request payloads: every income and cost with two ages, and every age and
\* bedrooms value with two incomes and costs.
ReqIncomes ==
  {JAbsent, JNum(-500), JNum(0), JNum(1300), JNum(6000), JNum(45000), JNum(90000)}
ReqCosts == {JAbsent, JNum(-1200), JNum(0), JNum(800), JNum(1200)}
ReqBedrooms == {JAbsent, JNum(2)}
ReqAges ==
  {JAbsent, JNull, JStr(""), JStr("abc"), JStr("nan"), JStr("140"), JList,
   JNum(17), JNum(18), JNum(35), JNum(110), JNum(111), JNum(140)}
Requests ==
  [income : ReqIncomes, cost : ReqCosts, bedrooms : {JAbsent},
   age : {JAbsent, JNum(140)}]
  \cup [income : {JAbsent, JNum(1300)}, cost : {JAbsent, JNum(800)},
        bedrooms : ReqBedrooms, age : ReqAges]
\* The payload of the deployment specification: every field absent.
DefaultRequest ==
  [income |-> JAbsent, cost |-> JAbsent, bedrooms |-> JAbsent, age |-> JAbsent]

(***************************************************************************)
(* The pipeline stages                                                     *)
(***************************************************************************)
\* clean_data.py:5-167: clean_and_transform_data writes cleaned_data.csv.
CleanedFile(in) ==
  LET cols == CleanedColumns(in.dropped)
      burden == TrainBurden(cols, in.zinc2, in.costmed)
  IN [run |-> 1, cols |-> cols, zinc2 |-> in.zinc2, costmed |-> in.costmed,
      cost_burden_ratio |-> burden,
      affordability_status |-> TrainStatus(burden)]
CleanedFiles == {CleanedFile(in) : in \in CleanInputs}

CleanData(in) ==
  /\ cleaned' = CleanedFile(in)
  /\ UNCHANGED <<refined, kmeans, globals, loadPc, handler, health, calc>>

\* refine_data.py:6-103: refine_data reads cleaned_data.csv, fits the scaler on
\* the final features and writes scaler.pkl, refined_features.csv and
\* refined_metadata.csv. Each run is numbered.
RefineData(in) ==
  /\ ~IsNone(cleaned)
  /\ refined.run < MaxRuns
  /\ refined' =
       [run |-> refined.run + 1,
        cols |-> FinalFeatures(cleaned.cols \ {"CONTROL"}, in.missing, in.corr),
        scaler_pkl |-> TRUE]
  /\ UNCHANGED <<cleaned, kmeans, globals, loadPc, handler, health, calc>>

\* run_analysis.py:14-166: run_analysis reads refined_features.csv and
\* refined_metadata.csv (both written by the same refine_data run, so the
\* length check of line 22 passes), selects k and writes kmeans_model.pkl and
\* cluster_assignments.csv.
RunAnalysis(sil) ==
  /\ ~IsNone(refined)
  /\ kmeans' = [run |-> refined.run, k |-> OptimalK(sil), n |-> Len(refined.cols)]
  /\ UNCHANGED <<cleaned, refined, globals, loadPc, handler, health, calc>>

(***************************************************************************)
(* app.py: load_resources                                                  *)
(***************************************************************************)
\* app.py:24-43
LoadData ==
  /\ loadPc = "idle"
  /\ df' = IF ~IsNone(refined) /\ ~IsNone(kmeans) THEN "metadata" ELSE df
  /\ loadPc' = "model"
  /\ UNCHANGED <<disk, model, scaler, handler, health, calc>>

\* app.py:45-46
LoadModel ==
  /\ loadPc = "model"
  /\ model' = IF ~IsNone(kmeans) THEN kmeans ELSE model
  /\ loadPc' = "scaler"
  /\ UNCHANGED <<disk, df, scaler, handler, health, calc>>

\* app.py:48-49
LoadScaler ==
  /\ loadPc = "scaler"
  /\ scaler' = IF ~IsNone(refined) /\ refined.scaler_pkl THEN refined ELSE scaler
  /\ loadPc' = "idle"
  /\ UNCHANGED <<disk, df, model, handler, health, calc>>

(***************************************************************************)
(* app.py: /api/predict                                                    *)
(***************************************************************************)
ErrorResponse(status, msg) == [status |-> status, body |-> [error |-> msg]]

\* app.py:87-166: the locals after parsing, age validation and
\* build_features, or the exception raised on the way.
ParseAndBuild(r) ==
  LET income_input == PyFloat(DataGet(r.income, DefaultIncome))
      cost_input == PyFloat(DataGet(r.cost, DefaultCost))
      bedrooms_input == PyFloat(DataGet(r.bedrooms, DefaultBedrooms))
      raw_age == DataGetNone(r.age)
      age == AgeValidation(raw_age)
  IN IF income_input.exc # "none" THEN [exc |-> income_input.exc]
     ELSE IF cost_input.exc # "none" THEN [exc |-> cost_input.exc]
     ELSE IF bedrooms_input.exc # "none" THEN [exc |-> bedrooms_input.exc]
     ELSE IF age.exc # "none" THEN [exc |-> age.exc]
     ELSE LET built == BuildFeatures(income_input.v[1], cost_input.v[1],
                                     age.final_age, bedrooms_input.v[1])
          IN [exc |-> "none",
              locals |->
                [stage |-> "built",
                 raw_age |-> raw_age,
                 final_age |-> age.final_age,
                 age_anomaly |-> age.age_anomaly,
                 safe_income |-> income_input.v[1],
                 safe_cost |-> cost_input.v[1],
                 safe_beds |-> bedrooms_input.v[1],
                 primary_vec |-> built.vec,
                 primary_burden |-> built.burden,
                 scaler_used |-> NoScaler,
                 model_used |-> NoModel,
                 primary_cluster |-> -1]]

\* A guard that looks at the model alone.
ModelUnavailableIgnoringScaler(m, s) == IsNone(m)

\* app.py:83: model is None or scaler is None
ModelUnavailable(m, s) == IsNone(m) \/ IsNone(s)

\* app.py:83-166: the handler up to the call of scaler.transform.
PredictBegin(r) ==
  /\ pc = "idle"
  /\ req' = r
  /\ IF ModelUnavailable(model, scaler)
     THEN /\ resp' = ErrorResponse(500, "Model not loaded")
          /\ loc' = NoLocals
          /\ pc' = "idle"
     ELSE LET built == ParseAndBuild(r)
          IN IF built.exc # "none"
             THEN /\ resp' = ErrorResponse(400, built.exc)
                  /\ loc' = NoLocals
                  /\ pc' = "idle"
             ELSE /\ resp' = NoResponse
                  /\ loc' = built.locals
                  /\ pc' = "transform"
  /\ UNCHANGED <<disk, globals, loadPc, health, calc>>

\* app.py:167: scaler.transform([primary_vec]) reads the global scaler.
PredictTransform ==
  /\ pc = "transform"
  /\ IF ScalerTransformRaises(scaler, loc.primary_vec)
     THEN /\ resp' = ErrorResponse(400, "ValueError")
          /\ loc' = [loc EXCEPT !.stage = "failed", !.scaler_used = scaler]
          /\ pc' = "idle"
     ELSE /\ resp' = NoResponse
          /\ loc' = [loc EXCEPT !.stage = "scaled", !.scaler_used = scaler]
          /\ pc' = "assign"
  /\ UNCHANGED <<disk, globals, loadPc, req, health, calc>>

\* app.py:168-246: model.predict reads the global model and returns one of
\* the ids 0..k-1 of its centroids; then the policy lookup, the anomalies and
\* the response.
PredictAssign ==
  /\ pc = "assign"
  /\ IF ModelPredictRaises(model, loc.primary_vec)
     THEN /\ resp' = ErrorResponse(400, "ValueError")
          /\ loc' = [loc EXCEPT !.stage = "failed", !.model_used = model]
     ELSE \E c \in 0..(model.k - 1) :
            /\ loc' = [loc EXCEPT !.stage = "assigned", !.model_used = model,
                                  !.primary_cluster = c]
            /\ resp' = Respond(loc, loc.safe_income, loc.safe_cost, c)
  /\ pc' = "idle"
  /\ UNCHANGED <<disk, globals, loadPc, req, health, calc>>

(***************************************************************************)
(* Specifications                                                          *)
(***************************************************************************)
\* The state after the module is imported with no artifact on disk.
Init ==
  /\ cleaned = NoCleaned
  /\ refined = NoScaler
  /\ kmeans = NoModel
  /\ df = None
  /\ model = NoModel
  /\ scaler = NoScaler
  /\ loadPc = "idle"
  /\ pc = "idle"
  /\ req = DefaultRequest
  /\ loc = NoLocals
  /\ resp = NoResponse
  /\ health = NoHealth
  /\ calc = NoCalc

\* The deployment: the pipeline stages, load_resources and requests, in any
\* interleaving.
Next ==
  \/ \E in \in CleanInputs : CleanData(in)
  \/ \E in \in RefineInputs : RefineData(in)
  \/ \E sil \in SilInputs : RunAnalysis(sil)
  \/ LoadData
  \/ LoadModel
  \/ LoadScaler
  \/ PredictBegin(DefaultRequest)
  \/ PredictTransform
  \/ PredictAssign

Spec == Init /\ [][Next]_vars

\* The service after load_resources has loaded one bundle from disk: a model
\* of a k that run_analysis selects from SilInputs and a scaler that
\* refine_data fits from RefineInputs. Only requests follow.
InitPredict ==
  /\ cleaned \in {c \in CleanedFiles : c.zinc2 = 45000 /\ c.costmed = 1200}
  /\ refined \in {[run |-> 1,
                   cols |-> FinalFeatures(cleaned.cols \ {"CONTROL"},
                                          in.missing, in.corr),
                   scaler_pkl |-> TRUE] :
                  in \in RefineInputs}
  /\ kmeans \in {[run |-> 1, k |-> OptimalK(sil), n |-> Len(refined.cols)] :
                 sil \in SilInputs}
  /\ df = "metadata"
  /\ model = kmeans
  /\ scaler = refined
  /\ loadPc = "idle"
  /\ pc = "idle"
  /\ req = DefaultRequest
  /\ loc = NoLocals
  /\ resp = NoResponse
  /\ health = NoHealth
  /\ calc = NoCalc

NextPredict ==
  \/ \E r \in Requests : PredictBegin(r)
  \/ PredictTransform
  \/ PredictAssign

SpecPredict == InitPredict /\ [][NextPredict]_vars

(***************************************************************************)
(* clean_data.py on a table of cells                                       *)
(***************************************************************************)
\* Number of rows of the tables the cleaning is run on.
TableRows == 4

\* A cell: a number (a fraction), a string, or pandas' NaN (missing).
NumCell(v) == [t |-> "num", v |-> v]
StrCell(s) == [t |-> "str", s |-> s]
NaNCell == [t |-> "nan"]
IsMissing(c) == c.t = "nan"

\* The strings of the table's code-label column in Python's string order,
\* which is the order pandas sorts them in.
StringOrder == <<".", "1 Own", "2 Rent", "N/A">>
StrRank(s) == CHOOSE i \in 1..Len(StringOrder) : StringOrder[i] = s
\* clean_data.py:59  val.split(' ')[0]
LeadingToken(s) ==
  CASE s = "1 Own" -> "1"
    [] s = "2 Rent" -> "2"
    [] OTHER -> s

CellLT(a, b) ==
  IF a.t = "num" THEN RatLT(a.v, b.v) ELSE StrRank(a.s) < StrRank(b.s)

RECURSIVE SortCells(_)
\* The cells of s in ascending order.
SortCells(s) ==
  IF s = <<>> THEN <<>>
  ELSE LET m == CHOOSE i \in 1..Len(s) : \A j \in 1..Len(s) : ~CellLT(s[j], s[i])
       IN <<s[m]>> \o SortCells(SubSeq(s, 1, m - 1) \o SubSeq(s, m + 1, Len(s)))

\* Series.dropna(): the cells that are not missing, in row order.
DropNa(col) == SelectSeq(col, LAMBDA c : ~IsMissing(c))

\* clean_data.py:13  df.replace('.', np.nan)
ReplaceDot(col) ==
  [i \in 1..Len(col) |-> IF col[i] = StrCell(".") THEN NaNCell ELSE col[i]]

\* clean_data.py:31  pd.to_numeric(df[col], errors='coerce')
ToNumeric(col) ==
  [i \in 1..Len(col) |->
     IF col[i].t # "str" THEN col[i]
     ELSE LET f == StrFloat(col[i].s)
          IN IF f.exc # "none" \/ IsNaN(f.v) THEN NaNCell ELSE NumCell(f.v)]

\* clean_data.py:32  df.loc[df[col] < 0, col] = np.nan
NegativeToNaN(col) ==
  [i \in 1..Len(col) |->
     IF col[i].t = "num" /\ RatLT(col[i].v, Num(0)) THEN NaNCell ELSE col[i]]

\* clean_data.py:35-37  isnull().mean() > 0.3
TooManyMissing(col) ==
  Cardinality({i \in 1..Len(col) : IsMissing(col[i])}) * 10 > 3 * Len(col)

\* The dtype pandas gives the column.
Dtype(col) ==
  IF \E i \in 1..Len(col) : col[i].t = "str" THEN "object"
  ELSE IF \E i \in 1..Len(col) : IsMissing(col[i]) THEN "float64"
  ELSE "int64"

\* clean_data.py:44  df[col].dtype == np.number. The abstract type np.number
\* is no dtype: the comparison is True for float64 where numpy still converts
\* np.number to float64 (a deprecated conversion) and False where it does not
\* (or where the deprecation warning is an error); number_is_float64 says
\* which. It is False for every other dtype.
DtypeIsNumber(dtype, number_is_float64) ==
  dtype = "float64" /\ number_is_float64

\* Series.median(): the middle of the sorted non-missing values.
Median(col) ==
  LET s == SortCells(DropNa(col))
      n == Len(s)
  IN IF n = 0 THEN NaNCell
     ELSE IF n % 2 = 1 THEN s[(n + 1) \div 2]
     ELSE LET a == s[n \div 2].v
              b == s[n \div 2 + 1].v
          IN NumCell(Rat(a[1] * b[2] + b[1] * a[2], 2 * a[2] * b[2]))

RECURSIVE SortSet(_)
SortSet(S) ==
  IF S = {} THEN <<>>
  ELSE LET m == CHOOSE x \in S : \A y \in S : ~CellLT(y, x)
       IN <<m>> \o SortSet(S \ {m})

Count(col, c) == Cardinality({i \in 1..Len(col) : col[i] = c})

\* Series.mode(): the most frequent non-missing values, sorted ascending.
Mode(col) ==
  LET vals == DropNa(col)
  IN SortSet({c \in Range(vals) :
                \A d \in Range(vals) : Count(vals, d) <= Count(vals, c)})

\* A fillna that leaves the column as it is.
FillnaNothing(col, x) == col

\* Series.fillna(x, inplace=True)
Fillna(col, x) ==
  [i \in 1..Len(col) |-> IF IsMissing(col[i]) THEN x ELSE col[i]]

\* clean_data.py:43-49: the imputation of one retained column.
Impute(col, number_is_float64) ==
  IF DtypeIsNumber(Dtype(col), number_is_float64)
  THEN Fillna(col, Median(col))
  ELSE IF Mode(col) # <<>> THEN Fillna(col, Mode(col)[1]) ELSE col

\* clean_data.py:55-65, 76  astype(str).apply(extract_code)
ExtractCode(col) ==
  [i \in 1..Len(col) |->
     IF col[i].t = "num" THEN col[i]
     ELSE LET val == IF col[i].t = "str" THEN col[i].s ELSE "nan"
              f == StrFloat(LeadingToken(val))
          IN IF f.exc # "none" \/ IsNaN(f.v) THEN NaNCell ELSE NumCell(f.v)]

\* clean_data.py:27
numeric_cols ==
  {"AGE1", "ZINC2", "COSTMED", "VALUE", "BEDRMS", "PER", "ROOMS", "FMR", "LMED"}
\* clean_data.py:69  the columns whose name starts with 'FMT'
fmt_cols == {"FMTSTRUCTURETYPE", "FMTOWNRENT", "FMTSTATUS", "FMTINCRELAMICAT"}

\* clean_data.py:96-102: cost_burden_ratio of a row with income z and cost c.
CostBurdenRatio(z, c) ==
  LET income == IF RatEq(z, Num(0)) THEN Num(1) ELSE z
      ratio == Rat(c[1] * 12 * income[2], c[2] * income[1])
  IN IF RatGT(ratio, Num(BurdenCap)) THEN Num(BurdenCap) ELSE ratio

HasMissing(col) == \E i \in 1..Len(col) : IsMissing(col[i])

\* clean_data.py:5-167: clean_and_transform_data on the table raw (a function
\* from column names to columns). The result keeps the table after each
\* step; exc is the exception that ended the run, written tells whether
\* cleaned_data.csv and clustering_features.csv were written.
CleanRun(raw, number_is_float64) ==
  LET replaced == [c \in DOMAIN raw |-> ReplaceDot(raw[c])]
      numeric == [c \in DOMAIN raw |->
                    IF c \in numeric_cols
                    THEN NegativeToNaN(ToNumeric(replaced[c]))
                    ELSE replaced[c]]
      cols_to_drop == {c \in DOMAIN raw : TooManyMissing(numeric[c])}
      kept == DOMAIN raw \ cols_to_drop
      imputed == [c \in kept |-> Impute(numeric[c], number_is_float64)]
      coded_cols == {c \in kept \cap fmt_cols : Dtype(imputed[c]) = "object"}
      coded == [c \in kept |->
                  IF c \in coded_cols THEN ExtractCode(imputed[c])
                  ELSE imputed[c]]
      raises == \E c \in coded_cols :
                  HasMissing(coded[c]) /\ Mode(coded[c]) = <<>>
      filled == [c \in kept |->
                   IF c \in coded_cols /\ HasMissing(coded[c])
                   THEN Fillna(coded[c], Mode(coded[c])[1])
                   ELSE coded[c]]
      burden == [i \in 1..TableRows |->
                   IF "COSTMED" \in kept /\ "ZINC2" \in kept
                   THEN IF IsMissing(filled["ZINC2"][i])
                           \/ IsMissing(filled["COSTMED"][i])
                        THEN NaNCell
                        ELSE NumCell(CostBurdenRatio(filled["ZINC2"][i].v,
                                                     filled["COSTMED"][i].v))
                   ELSE NumCell(Num(0))]
      base == [op |-> "clean", raw |-> raw,
               number_is_float64 |-> number_is_float64,
               numeric |-> numeric, cols_to_drop |-> cols_to_drop,
               imputed |-> imputed, coded |-> coded]
  IN IF raises
     THEN base @@
          [exc |-> "KeyError", written |-> FALSE, cleaned |-> <<>>]
     ELSE base @@
          [exc |-> "none", written |-> TRUE,
           cleaned |-> [c \in kept \cup {"cost_burden_ratio"} |->
                          IF c = "cost_burden_ratio" THEN burden
                          ELSE filled[c]]]

\* The raw tables: ZINC2, COSTMED and the code-label column FMTSTATUS, one of
\* them ranging over every column of its cells while the others are whole.
NumCells ==
  {StrCell("."), NumCell(Num(-6)), NumCell(Num(0)), NumCell(Num(10)),
   NumCell(Num(20))}
FmtCells == {StrCell(StringOrder[i]) : i \in 1..Len(StringOrder)}
WholeNumColumn == [i \in 1..TableRows |-> NumCell(Num(10))]
WholeFmtColumn == [i \in 1..TableRows |-> StrCell("1 Own")]
SparseNumColumn ==
  [i \in 1..TableRows |-> IF i <= 2 THEN StrCell(".") ELSE NumCell(Num(10))]
CleanTables ==
  {[ZINC2 |-> z, COSTMED |-> WholeNumColumn, FMTSTATUS |-> WholeFmtColumn] :
     z \in [1..TableRows -> NumCells]}
  \cup {[ZINC2 |-> WholeNumColumn, COSTMED |-> SparseNumColumn,
         FMTSTATUS |-> WholeFmtColumn]}
  \cup {[ZINC2 |-> WholeNumColumn, COSTMED |-> WholeNumColumn, FMTSTATUS |-> f] :
          f \in [1..TableRows -> FmtCells]}

\* clean_data.py:169-175: one run of the script on one table.
CleanAndTransformData ==
  /\ calc.op = "clean_input"
  /\ calc' = CleanRun(calc.raw, calc.number_is_float64)
  /\ UNCHANGED <<disk, globals, loadPc, handler, health>>

\* The service and the disk before anything ran.
NothingRan ==
  /\ cleaned = NoCleaned
  /\ refined = NoScaler
  /\ kmeans = NoModel
  /\ df = None
  /\ model = NoModel
  /\ scaler = NoScaler
  /\ loadPc = "idle"
  /\ pc = "idle"
  /\ req = DefaultRequest
  /\ loc = NoLocals
  /\ resp = NoResponse
  /\ health = NoHealth

InitClean ==
  /\ NothingRan
  /\ calc \in {[op |-> "clean_input", raw |-> t, number_is_float64 |-> b] :
                t \in CleanTables, b \in BOOLEAN}

NextClean == CleanAndTransformData

SpecClean == InitClean /\ [][NextClean]_vars

(***************************************************************************)
(* MinMaxScaler: refine_data.py fits it, app.py applies it                 *)
(***************************************************************************)
\* Number of rows of the training matrices the scaler is fitted on.
MatrixRows == 2

RatAdd(a, b) == Rat(a[1] * b[2] + b[1] * a[2], a[2] * b[2])
RatMul(a, b) == Rat(a[1] * b[1], a[2] * b[2])

MinOf(S) == CHOOSE m \in S : \A v \in S : m <= v
MaxOf(S) == CHOOSE m \in S : \A v \in S : v <= m

\* refine_data.py:88-89  MinMaxScaler().fit: per feature the minimum and the
\* maximum of the column, scale_ = 1 / (max - min) with a zero range replaced
\* by 1, and min_ = 0 - data_min * scale_.
MinMaxFit(X) ==
  LET features == 1..Len(X[1])
      data_min == [f \in features |-> MinOf({X[r][f] : r \in 1..Len(X)})]
      data_max == [f \in features |-> MaxOf({X[r][f] : r \in 1..Len(X)})]
      data_range == [f \in features |-> data_max[f] - data_min[f]]
      scale == [f \in features |->
                  Rat(1, IF data_range[f] = 0 THEN 1 ELSE data_range[f])]
  IN [data_min |-> data_min, data_max |-> data_max, scale |-> scale,
      min |-> [f \in features |-> RatMul(Num(0 - data_min[f]), scale[f])]]

\* app.py:167  scaler.transform: X * scale_ + min_, with no clipping.
MinMaxTransform(fit, x) ==
  [f \in 1..Len(x) |-> RatAdd(RatMul(Num(x[f]), fit.scale[f]), fit.min[f])]

\* Training matrices of two features and the vectors handed to transform.
TrainValues == {0, 10, 20}
InputValues == {-5, 0, 10, 20, 25}
TrainMatrices == [1..MatrixRows -> TrainValues \X TrainValues]
InputVectors == InputValues \X InputValues

\* refine_data.py:88-93: fit the scaler on the training matrix and dump it.
FitScaler ==
  /\ calc.op = "scale_input"
  /\ calc' = [op |-> "fitted", X |-> calc.X, x |-> calc.x,
              fit |-> MinMaxFit(calc.X)]
  /\ UNCHANGED <<disk, globals, loadPc, handler, health>>

\* app.py:167: transform one vector with the loaded scaler.
TransformVector ==
  /\ calc.op = "fitted"
  /\ calc' = [op |-> "transformed", X |-> calc.X, x |-> calc.x,
              fit |-> calc.fit, out |-> MinMaxTransform(calc.fit, calc.x)]
  /\ UNCHANGED <<disk, globals, loadPc, handler, health>>

InitScaler ==
  /\ NothingRan
  /\ calc \in {[op |-> "scale_input", X |-> X, x |-> x] :
                X \in TrainMatrices, x \in InputVectors}

NextScaler == FitScaler \/ TransformVector

SpecScaler == InitScaler /\ [][NextScaler]_vars

(***************************************************************************)
(* refine_data.py: the selection of features on a correlation matrix       *)
(***************************************************************************)
\* Pairs of candidate columns that may correlate above 0.85.
CorrPairs ==
  {{"cost_burden_ratio", "affordability_status"}, {"ZINC2", "FMTINCRELAMICAT"},
   {"VALUE", "FMR"}, {"PER", "BEDRMS"}, {"BEDRMS", "ROOMS"},
   {"REGION", "Locality_Label"}, {"FMTOWNRENT", "FMTSTATUS"}}
\* Candidate columns that may exceed 30% missing after the negative cleaning.
SparseCandidates == {"VALUE", "BEDRMS"}
SelectInputs == [missing : SUBSET SparseCandidates, corr : SUBSET CorrPairs]

\* refine_data.py:35-80: phases A and B on the cleaned table.
SelectFeatures ==
  /\ calc.op = "select_input"
  /\ LET cols == CleanedColumns({}) \ {"CONTROL"}
         feature_df == FeatureDf(cols, calc.missing)
     IN calc' = [op |-> "selected", missing |-> calc.missing, corr |-> calc.corr,
                 feature_df |-> feature_df,
                 to_drop |-> ToDrop(feature_df, calc.corr),
                 final_features |-> FinalFeatures(cols, calc.missing, calc.corr)]
  /\ UNCHANGED <<disk, globals, loadPc, handler, health>>

InitSelect ==
  /\ NothingRan
  /\ calc \in {[op |-> "select_input", missing |-> in.missing, corr |-> in.corr] :
                in \in SelectInputs}

NextSelect == SelectFeatures

SpecSelect == InitSelect /\ [][NextSelect]_vars

(***************************************************************************)
(* run_analysis.py: the search for k on given scores                       *)
(***************************************************************************)
\* Silhouette scores are drawn from 0..MaxScore.
MaxScore == 1

\* Inertia curves over K_range: a falling one, a flat one and a rising one.
InertiaCurves ==
  {[k \in KRange |-> 20 - k], [k \in KRange |-> 5], [k \in KRange |-> k]}
SearchInputs == [sil : [KRange -> 0..MaxScore], inertia : InertiaCurves]

\* run_analysis.py:40-74: the loop fits one model per k on X, records its
\* inertia and the silhouette score of its labels on X_sample; then the model
\* of optimal_k is fitted anew on X and dumped to kmeans_model.pkl.
KSearch(sil, inertia) ==
  LET optimal_k == OptimalK(sil)
      kmeans_final == [n_clusters |-> optimal_k, fitted_on |-> "X"]
  IN [op |-> "searched",
      inertia |-> inertia,
      sil_scores |-> sil,
      sil_scored_on |-> "X_sample",
      optimal_k |-> optimal_k,
      kmeans_final |-> kmeans_final,
      dumped |-> kmeans_final]

\* run_analysis.py:168-170: one run of the script's phase 3.
SearchK ==
  /\ calc.op = "search_input"
  /\ calc' = KSearch(calc.sil, calc.inertia)
  /\ UNCHANGED <<disk, globals, loadPc, handler, health>>

InitSearch ==
  /\ NothingRan
  /\ calc \in {[op |-> "search_input", sil |-> in.sil, inertia |-> in.inertia] :
                in \in SearchInputs}

NextSearch == SearchK

SpecSearch == InitSearch /\ [][NextSearch]_vars

(***************************************************************************)
(* app.py: /health while load_resources loads a bundle                     *)
(***************************************************************************)
\* app.py:58-61. rows is len(df) of a table of one household, 0 without df.
Health ==
  /\ health' = [status |-> IF df # None /\ ~IsNone(model)
                           THEN "healthy" ELSE "degraded",
                rows |-> IF df # None THEN 1 ELSE 0]
  /\ UNCHANGED <<disk, globals, loadPc, handler, calc>>

\* The service process with the artifacts of one pipeline run in its
\* directory and nothing loaded yet. scaler.pkl is a file of its own, which
\* load_resources looks for on its own (app.py:48): it is there or not.
InitHealth ==
  /\ cleaned \in {c \in CleanedFiles : c.zinc2 = 45000 /\ c.costmed = 1200}
  /\ refined \in {[run |-> 1,
                   cols |-> FinalFeatures(cleaned.cols \ {"CONTROL"},
                                          in.missing, in.corr),
                   scaler_pkl |-> b] :
                  in \in RefineInputs, b \in BOOLEAN}
  /\ kmeans \in {[run |-> 1, k |-> OptimalK(sil), n |-> Len(refined.cols)] :
                 sil \in SilInputs}
  /\ df = None
  /\ model = NoModel
  /\ scaler = NoScaler
  /\ loadPc = "idle"
  /\ pc = "idle"
  /\ req = DefaultRequest
  /\ loc = NoLocals
  /\ resp = NoResponse
  /\ health = NoHealth
  /\ calc = NoCalc

NextHealth ==
  \/ LoadData
  \/ LoadModel
  \/ LoadScaler
  \/ Health
  \/ PredictBegin(DefaultRequest)
  \/ PredictTransform
  \/ PredictAssign

SpecHealth == InitHealth /\ [][NextHealth]_vars

(***************************************************************************)
(* Properties                                                              *)
(***************************************************************************)
\* A request has been taken up by the handler (req is its payload).
Handled == resp # NoResponse \/ loc.stage # "none"
HasReason(body, m) ==
  \E i \in 1..Len(body.anomaly_reasons) : body.anomaly_reasons[i].msg = m

\* C1: whenever the model returned a cluster id that is not a key of
\* cluster_policy_map, the response is the explicit error (status 500) and its
\* body holds the error alone: no cluster, label or policy text.
C1_UnmappedClusterIsExplicitError ==
  (loc.stage = "assigned" /\ loc.primary_cluster \notin DOMAIN cluster_policy_map)
    => (resp.status = 500 /\ DOMAIN resp.body = {"error"})

\* C1 witness: a request whose cluster id is outside the table was answered.
C1_Witness ==
  /\ loc.stage = "assigned"
  /\ loc.primary_cluster \notin DOMAIN cluster_policy_map
  /\ resp.status = 500

\* C2 (as claimed): no prediction request reaches a cluster id without an
\* entry in the policy table, because training or startup would have stopped
\* on a model whose k the table does not cover.
C2_NoRequestReachesUnmappedCluster ==
  loc.stage = "assigned" => loc.primary_cluster \in DOMAIN cluster_policy_map

\* C3 (as claimed): the burden ratio stored for a household (income >= 0,
\* cost >= 0) of the training corpus equals the burden ratio build_features
\* computes for the same income and cost.
C3_TrainingBurdenEqualsInferenceBurden ==
  ~IsNone(cleaned) =>
    RatEq(cleaned.cost_burden_ratio,
          BuildFeatures(cleaned.zinc2, cleaned.costmed, Num(AGE_MEDIAN),
                        DefaultBedrooms).burden)

\* C4 (as claimed): the vector handed to scaler.transform has the features of
\* the scaler it is handed to, in the same order.
C4_VectorMatchesFittedColumns ==
  (loc.stage # "none" /\ ~IsNone(loc.scaler_used))
    => FeatureNames = loc.scaler_used.cols

\* C5 (as claimed): the scaler and the model one prediction reads come from
\* the same training run.
C5_PredictionReadsOneBundle ==
  (loc.stage # "none" /\ ~IsNone(loc.model_used))
    => loc.model_used.run = loc.scaler_used.run

\* C6 (as claimed): the persisted model was fitted on the matrix produced by
\* the persisted scaler.
C6_PersistedBundleConsistent ==
  (~IsNone(refined) /\ ~IsNone(kmeans)) => kmeans.run = refined.run

\* C7 (as claimed): burden = cost*12/income for income >= 1 and cost*12/1 for
\* income < 1, and the burden ratio of every accepted request is finite and
\* non-negative.
C7_BurdenFormulaFiniteNonNegative ==
  /\ loc.stage # "none" =>
       loc.primary_burden =
         IF loc.safe_income >= 1
         THEN Rat(loc.safe_cost * 12, loc.safe_income)
         ELSE Rat(loc.safe_cost * 12, 1)
  /\ resp.status = 200 =>
       /\ ~IsNaN(resp.body.cost_burden_ratio)
       /\ RatLE(Num(0), resp.body.cost_burden_ratio)

\* C8 (as claimed): a missing or unparsable age is replaced by the median
\* default without an anomaly; an age that parses but is not in [18,110] is
\* replaced by the median default, flagged, and its raw value echoed in the
\* reasons; an age in [18,110] is used unchanged.
C8_AgeHandling ==
  Handled =>
    LET raw_age == DataGetNone(req.age)
        parsed == PyFloat(raw_age)
        inside == /\ parsed.exc = "none"
                  /\ ~IsNaN(parsed.v)
                  /\ RatLE(Num(AgeMin), parsed.v)
                  /\ RatLE(parsed.v, Num(AgeMax))
    IN /\ loc.stage # "none"
       /\ IF parsed.exc # "none"
          THEN /\ loc.final_age = Num(AGE_MEDIAN)
               /\ ~loc.age_anomaly
          ELSE IF inside
          THEN /\ loc.final_age = parsed.v
               /\ ~loc.age_anomaly
          ELSE /\ loc.final_age = Num(AGE_MEDIAN)
               /\ loc.age_anomaly
               /\ resp.status = 200 =>
                    /\ resp.body.anomaly_flag
                    /\ \E i \in 1..Len(resp.body.anomaly_reasons) :
                         /\ "raw" \in DOMAIN resp.body.anomaly_reasons[i]
                         /\ resp.body.anomaly_reasons[i].raw = raw_age

\* C9 (as claimed): when income < 6000, cost >= 800 and burden > 2.0 the
\* response flags a possible monthly income entry and carries an alternative
\* interpretation computed with income*12.
C9_MonthlyIncomeAlternative ==
  (resp.status = 200
     /\ PossibleMonthly(loc.safe_income, loc.safe_cost, loc.primary_burden))
    => /\ HasReason(resp.body, "Potential monthly income entry detected.")
       /\ "alternative_interpretation" \in DOMAIN resp.body
       /\ resp.body.alternative_interpretation.adjusted_annual_income
            = loc.safe_income * 12

\* C10 (as claimed): a burden ratio > 2.0 adds an extremely-high-cost-burden
\* reason and an income <= 6000 adds an extremely-low-income reason.
C10_ExtremeValueReasons ==
  resp.status = 200 =>
    /\ RatGT(loc.primary_burden, Num(2))
         => HasReason(resp.body, "Extremely high cost burden (>200%)")
    /\ loc.safe_income <= 6000
         => HasReason(resp.body, "Extremely low income (<= $6000)")

\* C11 (as claimed): with model and scaler loaded (of the width of the request
\* vector) and income, cost and bedrooms valid, no value of the age field
\* makes the request fail: every answered request carries a cluster result.
C11_AgeNeverFailsRequest ==
  (/\ Handled
   /\ pc = "idle"
   /\ Len(scaler.cols) = Len(FeatureNames)
   /\ model.n = Len(FeatureNames)
   /\ req.income \in {JAbsent, JNum(1300)}
   /\ req.cost \in {JAbsent, JNum(800)}
   /\ req.bedrooms \in {JAbsent, JNum(2)})
    => loc.stage = "assigned"

\* C12: a request that arrives while the model or the scaler is None is
\* answered with the error "Model not loaded" and nothing else happens: no
\* locals are built (no parsing, no feature vector, no model call) and the
\* handler is ready for the next request.
C12_UnavailableModelAnswersWithoutWork ==
  [][(/\ pc = "idle"
      /\ (model.run = 0 \/ scaler.run = 0)
      /\ handler' # handler)
       => (/\ resp' = ErrorResponse(500, "Model not loaded")
           /\ loc' = NoLocals
           /\ pc' = "idle")]_vars

\* C12 witness: a request was refused while the model was loaded and the
\* scaler was not.
C12_Witness ==
  /\ resp = ErrorResponse(500, "Model not loaded")
  /\ model.run # 0
  /\ scaler.run = 0
  /\ pc = "idle"

\* The run of clean_and_transform_data on calc.raw has ended.
CleanEnded == calc.op = "clean"
CleanFinished == CleanEnded /\ calc.exc = "none"

\* v is a most frequent value of col.
MostFrequent(col, v) ==
  /\ v \in Range(DropNa(col))
  /\ \A d \in Range(DropNa(col)) : Count(col, d) <= Count(col, v)
FirstRow(col, v) == CHOOSE i \in 1..Len(col) : col[i] = v /\ \A j \in 1..(i - 1) : col[j] # v
\* v is the most frequent value of col that comes first in row order.
FirstMostFrequent(col, v) ==
  MostFrequent(col, v)
    /\ \A d \in Range(col) : MostFrequent(col, d) => FirstRow(col, v) <= FirstRow(col, d)

\* C13 (as claimed): when ZINC2 or COSTMED is dropped by the 30% rule, the run
\* ends with an error and writes neither output file.
C13_MissingRequiredColumnStopsRun ==
  (CleanEnded /\ calc.cols_to_drop \cap {"ZINC2", "COSTMED"} # {})
    => (calc.exc # "none" /\ ~calc.written)

\* C14: when clean_and_transform_data finishes, no cell of any column of the
\* cleaned table is missing.
C14_NoMissingCellAfterCleaning ==
  CleanFinished => \A c \in DOMAIN calc.cleaned : ~HasMissing(calc.cleaned[c])

\* C14 witness: a run finished on a table whose code-label column had a
\* missing cell and a cell whose leading token does not parse.
C14_Witness ==
  /\ CleanFinished
  /\ "FMTSTATUS" \in DOMAIN calc.cleaned
  /\ StrCell(".") \in Range(calc.raw["FMTSTATUS"])
  /\ StrCell("N/A") \in Range(calc.raw["FMTSTATUS"])

\* C16 (as claimed): every missing cell of a retained numeric column is
\* filled with the median of the column's non-missing values.
C16_NumericMissingFilledWithMedian ==
  CleanFinished =>
    \A c \in DOMAIN calc.cleaned \cap numeric_cols :
      \A i \in 1..TableRows :
        IsMissing(calc.numeric[c][i])
          => RatEq(calc.cleaned[c][i].v, Median(calc.numeric[c]).v)

\* C17 (as claimed): the value that fills the missing cells of a categorical
\* or coded column is the most frequent value that comes first in row order.
C17_TieFilledWithFirstInRowOrder ==
  CleanFinished =>
    \A c \in DOMAIN calc.cleaned \cap fmt_cols :
      \A i \in 1..TableRows :
        /\ IsMissing(calc.numeric[c][i])
             => FirstMostFrequent(calc.numeric[c], calc.imputed[c][i])
        /\ IsMissing(calc.coded[c][i])
             => FirstMostFrequent(calc.coded[c], calc.cleaned[c][i])

\* C15 (as claimed): the fitted scaler maps the minimum row to zeros, the
\* maximum row to ones (in every feature that varies), a feature whose
\* training minimum equals its maximum to 0, and a value outside a varying
\* feature's training range to a value outside [0,1].
C15_ScalerMapsRangeToUnitInterval ==
  calc.op = "transformed" =>
    \A f \in 1..Len(calc.x) :
      LET lo == calc.fit.data_min[f]
          hi == calc.fit.data_max[f]
      IN /\ calc.x[f] = lo => RatEq(calc.out[f], Num(0))
         /\ (calc.x[f] = hi /\ lo < hi) => RatEq(calc.out[f], Num(1))
         /\ lo = hi => RatEq(calc.out[f], Num(0))
         /\ (lo < hi /\ calc.x[f] < lo) => RatLT(calc.out[f], Num(0))
         /\ (lo < hi /\ calc.x[f] > hi) => RatGT(calc.out[f], Num(1))

\* The pairs above 0.85 of which both columns are in feature_df.
HighPairs == {p \in calc.corr : p \subseteq Range(calc.feature_df)}
\* feature_df with the columns a and b in each other's position.
Swapped(fdf, a, b) ==
  [i \in 1..Len(fdf) |-> IF fdf[i] = a THEN b ELSE IF fdf[i] = b THEN a ELSE fdf[i]]
\* A continuous measure and the categorical code derived from it.
CodedDerivatives ==
  {<<"cost_burden_ratio", "affordability_status">>, <<"ZINC2", "FMTINCRELAMICAT">>}

\* C18 (as claimed): of a continuous measure and its categorical-coded
\* derivative that correlate above 0.85 the derivative is the one dropped, and
\* which column of a pair above 0.85 is dropped does not depend on the
\* position of the two columns: with the two in each other's place the same
\* columns are dropped.
C18_DropChosenByPriorityNotPosition ==
  calc.op = "selected" =>
    /\ \A d \in CodedDerivatives :
         {d[1], d[2]} \in HighPairs => d[2] \in calc.to_drop
    /\ \A p \in HighPairs : \A a \in p : \A b \in p :
         ToDrop(Swapped(calc.feature_df, a, b), calc.corr) = calc.to_drop

\* C19 (as claimed): of every pair above 0.85 exactly one column is dropped:
\* no two retained columns form such a pair and no such pair has both columns
\* dropped.
C19_ExactlyOneOfEachPairDropped ==
  calc.op = "selected" =>
    \A p \in HighPairs :
      /\ ~(p \subseteq Range(calc.final_features))
      /\ ~(p \subseteq calc.to_drop)

\* C20: the selected k has the highest sample silhouette score of 2..10 and
\* is the smallest k that has it, whatever the inertia values are, and the
\* model written to kmeans_model.pkl is the one fitted on the full matrix X
\* with that number of clusters.
C20_SelectsSmallestBestSilhouette ==
  calc.op = "searched" =>
    /\ calc.optimal_k \in KRange
    /\ \A k \in KRange : calc.sil_scores[k] <= calc.sil_scores[calc.optimal_k]
    /\ \A k \in KRange :
         calc.sil_scores[k] = calc.sil_scores[calc.optimal_k]
           => calc.optimal_k <= k
    /\ calc.dumped = [n_clusters |-> calc.optimal_k, fitted_on |-> "X"]

\* C20 witness: a search in which several k tie for the highest score, the
\* inertia falls with k, and the selected k is not the last of the range.
C20_Witness ==
  /\ calc.op = "searched"
  /\ \E k \in KRange :
       k > calc.optimal_k /\ calc.sil_scores[k] = calc.sil_scores[calc.optimal_k]
  /\ \E k \in KRange : calc.sil_scores[k] < calc.sil_scores[calc.optimal_k]
  /\ calc.inertia[2] > calc.inertia[10]
  /\ calc.dumped.n_clusters = calc.optimal_k

\* C21 (as claimed): whenever /health has reported 'healthy', both the model
\* and the scaler are loaded, so that /api/predict does not answer
\* "Model not loaded".
C21_HealthyImpliesModelAndScalerLoaded ==
  health.status = "healthy" => (model.run # 0 /\ scaler.run # 0)

====
